---- MODULE Spec2Model ----
(***************************************************************************)
(* Model of cmd/scanGithubEnterprise.go: the Run function of               *)
(* scanGithubEnterpriseCmd.  Run is single-threaded control flow; its      *)
(* position is pc (labels are source line numbers), every call of a        *)
(* collaborator of package core is two steps (start, return) recorded in   *)
(* trace, and the session object is the record sess.                       *)
(***************************************************************************)
EXTENDS FiniteSets, Integers, Sequences, TLC

VARIABLES viper, sess, pc, inCall, trace

vars == <<viper, sess, pc, inCall, trace>>

\* Number of distinct names a target list may hold.
MaxTargets == 1

Names == 1..MaxTargets

\* Token strings: "" is the absent token.
Tokens == {"", "tok"}

\* A Go slice of names: the nil slice, or a non-nil slice holding the names
\* elems (a non-nil slice may hold none, as []string{} does).
Nil == [isNil |-> TRUE, elems |-> {}]

Slice(e) == [isNil |-> FALSE, elems |-> e]

\* Every value a target list of the session can hold.
Slices == {Nil} \cup {Slice(e) : e \in SUBSET Names}

\* The target lists a run starts with: a list the user did not give is left
\* nil (Run's comments on lines 45, 53 and 60 read the nil tests as "have"
\* and "no"), a list the user gave holds at least one name.
TargetLists == {Nil} \cup {Slice(e) : e \in (SUBSET Names) \ {{}}}

None == "none"

\* The four gatherers of package core called by Run.
Gatherers ==
  {"GatherUsers", "GatherOrgs", "GatherGithubOrgRepositories",
   "GetGithubRepositoriesFromOwner"}

\* The session before core.NewSession has returned.
NoSession ==
  [created |-> FALSE, ScanType |-> "", UserLogins |-> Nil, UserOrgs |-> Nil,
   UserRepos |-> Nil, GithubAccessToken |-> "", Silent |-> FALSE,
   StartedAt |-> 0, FinishedAt |-> 0, finishes |-> 0,
   GithubUsers |-> {}, Organizations |-> {}, Repositories |-> {},
   errors |-> 0, stats |-> 0, tokenAssigned |-> FALSE, failures |-> 0]

\* Logical clock: the number of events so far, plus one.
Now == Len(trace) + 1

Event(op, ev, line) == [op |-> op, ev |-> ev, line |-> line]

\* The call at a source line begins.
Start(op, line) ==
  /\ pc = line
  /\ inCall = None
  /\ inCall' = op
  /\ trace' = Append(trace, Event(op, "start", line))
  /\ UNCHANGED <<viper, sess, pc>>

\* The call at a source line is executing and returns now.
Returning(op, line) ==
  /\ pc = line
  /\ inCall = op
  /\ inCall' = None
  /\ trace' = Append(trace, Event(op, "return", line))

\* NextLine with line 35 (CheckGithubAPIToken) moved after line 43.
NextLine_InitBeforeToken(line) ==
  CASE line = "L28" -> "L31"
    [] line = "L31" -> "L38"
    [] line = "L38" -> "L39"
    [] line = "L39" -> "L40"
    [] line = "L40" -> "L43"
    [] line = "L43" -> "L35"
    [] line = "L35" -> "L47"
    [] line = "L49" -> "L54"
    [] line = "L56" -> "L62"
    [] line = "L64" -> "L65"
    [] line = "L65" -> "L74"
    [] line = "L67" -> "L68"
    [] line = "L68" -> "L74"
    [] line = "L70" -> "L74"
    [] line = "L74" -> "L75"
    [] line = "L75" -> "L77"
    [] line = "L77" -> "L79"
    [] line = "L80" -> "L81"

\* NextLine with GetGithubRepositoriesFromOwner (line 68) left out.
NextLine_SkipOwner(line) ==
  CASE line = "L28" -> "L31"
    [] line = "L31" -> "L35"
    [] line = "L35" -> "L38"
    [] line = "L38" -> "L39"
    [] line = "L39" -> "L40"
    [] line = "L40" -> "L43"
    [] line = "L43" -> "L47"
    [] line = "L49" -> "L54"
    [] line = "L56" -> "L62"
    [] line = "L64" -> "L65"
    [] line = "L65" -> "L74"
    [] line = "L67" -> "L74"
    [] line = "L68" -> "L74"
    [] line = "L70" -> "L74"
    [] line = "L74" -> "L75"
    [] line = "L75" -> "L77"
    [] line = "L77" -> "L79"
    [] line = "L80" -> "L81"

\* NextLine with the analysis (line 74) moved before line 65.
NextLine_AnalyzeEarly(line) ==
  CASE line = "L28" -> "L31"
    [] line = "L31" -> "L35"
    [] line = "L35" -> "L38"
    [] line = "L38" -> "L39"
    [] line = "L39" -> "L40"
    [] line = "L40" -> "L43"
    [] line = "L43" -> "L47"
    [] line = "L49" -> "L54"
    [] line = "L56" -> "L62"
    [] line = "L64" -> "L74"
    [] line = "L65" -> "L75"
    [] line = "L67" -> "L68"
    [] line = "L68" -> "L74"
    [] line = "L70" -> "L74"
    [] line = "L74" -> "L65"
    [] line = "L75" -> "L77"
    [] line = "L77" -> "L79"
    [] line = "L80" -> "L81"

\* NextLine with lines 75 and 77 exchanged: the report before Finish.
NextLine_StatsBeforeFinish(line) ==
  CASE line = "L28" -> "L31"
    [] line = "L31" -> "L35"
    [] line = "L35" -> "L38"
    [] line = "L38" -> "L39"
    [] line = "L39" -> "L40"
    [] line = "L40" -> "L43"
    [] line = "L43" -> "L47"
    [] line = "L49" -> "L54"
    [] line = "L56" -> "L62"
    [] line = "L64" -> "L65"
    [] line = "L65" -> "L74"
    [] line = "L67" -> "L68"
    [] line = "L68" -> "L74"
    [] line = "L70" -> "L74"
    [] line = "L74" -> "L77"
    [] line = "L77" -> "L75"
    [] line = "L75" -> "L79"
    [] line = "L80" -> "L81"

\* Position in Run after the call at a line has returned.
NextLine(line) ==
  CASE line = "L28" -> "L31"
    [] line = "L31" -> "L35"
    [] line = "L35" -> "L38"
    [] line = "L38" -> "L39"
    [] line = "L39" -> "L40"
    [] line = "L40" -> "L43"
    [] line = "L43" -> "L47"
    [] line = "L49" -> "L54"
    [] line = "L56" -> "L62"
    [] line = "L64" -> "L65"
    [] line = "L65" -> "L74"
    [] line = "L67" -> "L68"
    [] line = "L68" -> "L74"
    [] line = "L70" -> "L74"
    [] line = "L74" -> "L75"
    [] line = "L75" -> "L77"
    [] line = "L77" -> "L79"
    [] line = "L80" -> "L81"

Init ==
  /\ viper \in [logins : TargetLists, orgs : TargetLists,
                repos : TargetLists, githubApiToken : Tokens,
                githubEnterpriseApiToken : Tokens, silent : BOOLEAN]
  /\ sess = NoSession
  /\ pc = "L28"
  /\ inCall = None
  /\ trace = <<>>

\* line 28: sess := core.NewSession(viperScanGithubEnterprise, scanType)
NewSession ==
  \/ Start("NewSession", "L28")
  \/ /\ Returning("NewSession", "L28")
     /\ sess' = [NoSession EXCEPT !.created = TRUE,
                                  !.ScanType = "github-enterprise",
                                  !.UserLogins = viper.logins,
                                  !.UserOrgs = viper.orgs,
                                  !.UserRepos = viper.repos,
                                  !.Silent = viper.silent,
                                  !.StartedAt = Now]
     /\ pc' = NextLine("L28")
     /\ UNCHANGED viper

\* line 31: sess.ValidateUserInput(viperScanGithubEnterprise)
ValidateUserInput ==
  \/ Start("ValidateUserInput", "L31")
  \/ /\ Returning("ValidateUserInput", "L31")
     /\ pc' = NextLine("L31")
     /\ UNCHANGED <<viper, sess>>

\* core.CheckGithubAPIToken: the token is accepted as it is; an empty one
\* only produces a notice.
CheckGithubAPIToken(t, s) == t

\* line 35: sess.GithubAccessToken = core.CheckGithubAPIToken(
\*            viperScanGithubEnterprise.GetString("github-api-token"), sess)
CheckToken ==
  \/ Start("CheckGithubAPIToken", "L35")
  \/ /\ Returning("CheckGithubAPIToken", "L35")
     /\ sess' = [sess EXCEPT !.GithubAccessToken =
                     CheckGithubAPIToken(viper.githubApiToken, sess),
                              !.tokenAssigned = TRUE]
     /\ pc' = NextLine("L35")
     /\ UNCHANGED viper

\* line 43: sess.InitGitClient()
InitGitClient ==
  \/ Start("InitGitClient", "L43")
  \/ /\ Returning("InitGitClient", "L43")
     /\ pc' = NextLine("L43")
     /\ UNCHANGED <<viper, sess>>

\* LoginsOnly without the test of sess.UserRepos.
LoginsOnly_NoRepoCheck(s) ==
  s.UserLogins # Nil /\ s.UserOrgs = Nil

\* LoginsOnly without the test of sess.UserOrgs.
LoginsOnly_NoOrgCheck(s) ==
  s.UserLogins # Nil /\ s.UserRepos = Nil

\* LoginsOnly gathering the users only when the session has a token.
LoginsOnly_NeedsToken(s) ==
  /\ s.UserLogins # Nil /\ s.UserOrgs = Nil /\ s.UserRepos = Nil
  /\ s.GithubAccessToken # ""

\* LoginsOnly with the first test inverted (== nil for != nil).
LoginsOnly_Inverted(s) ==
  s.UserLogins = Nil /\ s.UserOrgs = Nil /\ s.UserRepos = Nil

\* lines 47-48: sess.UserLogins != nil, sess.UserOrgs == nil and
\* sess.UserRepos == nil
LoginsOnly(s) ==
  s.UserLogins # Nil /\ s.UserOrgs = Nil /\ s.UserRepos = Nil

\* OrgsOnly without the test of sess.UserRepos.
OrgsOnly_NoRepoCheck(s) ==
  s.UserOrgs # Nil /\ s.UserLogins = Nil

\* OrgsOnly without the test of sess.UserLogins.
OrgsOnly_NoLoginCheck(s) ==
  s.UserOrgs # Nil /\ s.UserRepos = Nil

\* lines 54-55: sess.UserOrgs != nil, sess.UserLogins == nil and
\* sess.UserRepos == nil
OrgsOnly(s) ==
  s.UserOrgs # Nil /\ s.UserLogins = Nil /\ s.UserRepos = Nil

\* ReposTarget returning from Run in the else of line 69.
ReposTarget_AbortInvalid(s) ==
  IF s.UserRepos # Nil
  THEN IF s.UserOrgs # Nil THEN "L64"
       ELSE IF s.UserLogins # Nil THEN "L67"
       ELSE "L83"
  ELSE "L74"

\* ReposTarget without the test of sess.UserLogins on line 66.
ReposTarget_NoLoginCheck(s) ==
  IF s.UserRepos # Nil
  THEN IF s.UserOrgs # Nil THEN "L64" ELSE "L67"
  ELSE "L74"

\* ReposTarget with the call of line 64 (GatherOrgs) left out.
ReposTarget_SkipGatherOrgs(s) ==
  IF s.UserRepos # Nil
  THEN IF s.UserOrgs # Nil THEN "L65"
       ELSE IF s.UserLogins # Nil THEN "L67"
       ELSE "L70"
  ELSE "L74"

\* ReposTarget testing sess.UserLogins before sess.UserOrgs.
ReposTarget_LoginsFirst(s) ==
  IF s.UserRepos # Nil
  THEN IF s.UserLogins # Nil THEN "L67"
       ELSE IF s.UserOrgs # Nil THEN "L64"
       ELSE "L70"
  ELSE "L74"

\* lines 62-72: the line the third conditional continues at.
ReposTarget(s) ==
  IF s.UserRepos # Nil
  THEN IF s.UserOrgs # Nil THEN "L64"
       ELSE IF s.UserLogins # Nil THEN "L67"
       ELSE "L70"
  ELSE "L74"

\* lines 47-51: if sess.UserLogins != nil { if ... { core.GatherUsers } }
IfUserLogins ==
  /\ pc = "L47"
  /\ inCall = None
  /\ pc' = IF LoginsOnly(sess) THEN "L49" ELSE "L54"
  /\ UNCHANGED <<viper, sess, inCall, trace>>

\* lines 54-58: if sess.UserOrgs != nil { if ... { core.GatherOrgs } }
IfUserOrgs ==
  /\ pc = "L54"
  /\ inCall = None
  /\ pc' = IF OrgsOnly(sess) THEN "L56" ELSE "L62"
  /\ UNCHANGED <<viper, sess, inCall, trace>>

\* lines 62-72: if sess.UserRepos != nil { ... }
IfUserRepos ==
  /\ pc = "L62"
  /\ inCall = None
  /\ pc' = ReposTarget(sess)
  /\ UNCHANGED <<viper, sess, inCall, trace>>

\* A gatherer's possible results: when the collaborator is deterministic
\* (det) every target asked for exists; otherwise any of them may be
\* missing.
Found(det, asked) == IF det THEN {asked} ELSE SUBSET asked

\* AfterGather returning from Run when the gatherer recorded a failure.
AfterGather_AbortOnFailure(s, line) ==
  IF s.failures > 0 THEN "L83" ELSE NextLine(line)

\* lines 49, 56, 64, 65, 67, 68: the gatherers are called as statements;
\* Run continues with the next line whatever happened to the session s.
AfterGather(s, line) == NextLine(line)

\* lines 49 and 67: core.GatherUsers(sess).  The users found are some of
\* the logins asked for; a login that does not exist is left out and
\* counted as a failure.
GatherUsersWith(det) ==
  \E line \in {"L49", "L67"} :
    \/ Start("GatherUsers", line)
    \/ /\ Returning("GatherUsers", line)
       /\ \E found \in Found(det, sess.UserLogins.elems) :
            sess' = [sess EXCEPT !.GithubUsers = found,
                       !.failures = @ + Cardinality(sess.UserLogins.elems \ found)]
       /\ pc' = AfterGather(sess', line)
       /\ UNCHANGED viper

GatherUsers == GatherUsersWith(FALSE)

\* lines 56 and 64: core.GatherOrgs(sess)
GatherOrgsWith(det) ==
  \E line \in {"L56", "L64"} :
    \/ Start("GatherOrgs", line)
    \/ /\ Returning("GatherOrgs", line)
       /\ \E found \in Found(det, sess.UserOrgs.elems) :
            sess' = [sess EXCEPT !.Organizations = found,
                       !.failures = @ + Cardinality(sess.UserOrgs.elems \ found)]
       /\ pc' = AfterGather(sess', line)
       /\ UNCHANGED viper

GatherOrgs == GatherOrgsWith(FALSE)

\* line 65: core.GatherGithubOrgRepositories(sess): repositories of the
\* organizations gathered, restricted to the repositories asked for.
GatherGithubOrgRepositoriesWith(det) ==
  \/ Start("GatherGithubOrgRepositories", "L65")
  \/ /\ Returning("GatherGithubOrgRepositories", "L65")
     /\ \E found \in Found(det, sess.Organizations \X sess.UserRepos.elems) :
          sess' = [sess EXCEPT !.Repositories = @ \cup found,
                     !.failures = @ + Cardinality(
                        (sess.Organizations \X sess.UserRepos.elems) \ found)]
     /\ pc' = AfterGather(sess', "L65")
     /\ UNCHANGED viper

GatherGithubOrgRepositories == GatherGithubOrgRepositoriesWith(FALSE)

\* line 68: core.GetGithubRepositoriesFromOwner(sess)
GetGithubRepositoriesFromOwnerWith(det) ==
  \/ Start("GetGithubRepositoriesFromOwner", "L68")
  \/ /\ Returning("GetGithubRepositoriesFromOwner", "L68")
     /\ \E found \in Found(det, sess.GithubUsers \X sess.UserRepos.elems) :
          sess' = [sess EXCEPT !.Repositories = @ \cup found,
                     !.failures = @ + Cardinality(
                        (sess.GithubUsers \X sess.UserRepos.elems) \ found)]
     /\ pc' = AfterGather(sess', "L68")
     /\ UNCHANGED viper

GetGithubRepositoriesFromOwner == GetGithubRepositoriesFromOwnerWith(FALSE)

\* line 70: sess.Out.Error("You need to specify an org or user ...")
OutError ==
  \/ Start("Out.Error", "L70")
  \/ /\ Returning("Out.Error", "L70")
     /\ sess' = [sess EXCEPT !.errors = @ + 1]
     /\ pc' = NextLine("L70")
     /\ UNCHANGED viper

\* line 74: core.AnalyzeRepositories(sess)
AnalyzeRepositories ==
  \/ Start("AnalyzeRepositories", "L74")
  \/ /\ Returning("AnalyzeRepositories", "L74")
     /\ pc' = NextLine("L74")
     /\ UNCHANGED <<viper, sess>>

\* line 75: sess.Finish()
Finish ==
  \/ Start("Finish", "L75")
  \/ /\ Returning("Finish", "L75")
     /\ sess' = [sess EXCEPT !.FinishedAt = Now, !.finishes = @ + 1]
     /\ pc' = NextLine("L75")
     /\ UNCHANGED viper

\* line 77: core.PrintSessionStats(sess)
PrintSessionStats ==
  \/ Start("PrintSessionStats", "L77")
  \/ /\ Returning("PrintSessionStats", "L77")
     /\ sess' = [sess EXCEPT !.stats = @ + 1]
     /\ pc' = NextLine("L77")
     /\ UNCHANGED viper

\* Blocks with the test inverted: only a silent session blocks.
Blocks_Inverted(s) == s.Silent

\* Blocks with select {} outside the conditional: every session blocks.
Blocks_Always(s) == TRUE

\* line 79: !sess.Silent
Blocks(s) == ~s.Silent

\* lines 79-82: if !sess.Silent { Out.Important(...); select {} }: Run
\* continues into the conditional when the session is not silent and
\* returns (line 83) otherwise.
IfNotSilent ==
  /\ pc = "L79"
  /\ inCall = None
  /\ pc' = IF Blocks(sess) THEN "L80" ELSE "L83"
  /\ UNCHANGED <<viper, sess, inCall, trace>>

\* lines 38, 39, 40: sess.Out.Important(...) of the start banner, in every
\* run; line 80: sess.Out.Important("Press Ctrl+C to stop web server and
\* exit.\n"); line 81 is select {}, which no step leaves.
OutImportant ==
  \E line \in {"L38", "L39", "L40", "L80"} :
    \/ Start("Out.Important", line)
    \/ /\ Returning("Out.Important", line)
       /\ pc' = NextLine(line)
       /\ UNCHANGED <<viper, sess>>

Next ==
  \/ NewSession
  \/ ValidateUserInput
  \/ CheckToken
  \/ InitGitClient
  \/ IfUserLogins
  \/ IfUserOrgs
  \/ IfUserRepos
  \/ GatherUsers
  \/ GatherOrgs
  \/ GatherGithubOrgRepositories
  \/ GetGithubRepositoriesFromOwner
  \/ OutError
  \/ AnalyzeRepositories
  \/ Finish
  \/ PrintSessionStats
  \/ IfNotSilent
  \/ OutImportant

Spec == Init /\ [][Next]_vars

\* Run is one goroutine that keeps executing: whenever a step of Run is
\* possible (its collaborators return), one is eventually taken.
FairSpec == Spec /\ WF_vars(Next)

\* The gatherers as a deterministic collaborator: every target exists.
GatherUsersDet == GatherUsersWith(TRUE)
GatherOrgsDet == GatherOrgsWith(TRUE)
GatherGithubOrgRepositoriesDet == GatherGithubOrgRepositoriesWith(TRUE)
GetGithubRepositoriesFromOwnerDet == GetGithubRepositoriesFromOwnerWith(TRUE)

NextDet ==
  \/ NewSession
  \/ ValidateUserInput
  \/ CheckToken
  \/ InitGitClient
  \/ IfUserLogins
  \/ IfUserOrgs
  \/ IfUserRepos
  \/ GatherUsersDet
  \/ GatherOrgsDet
  \/ GatherGithubOrgRepositoriesDet
  \/ GetGithubRepositoriesFromOwnerDet
  \/ OutError
  \/ AnalyzeRepositories
  \/ Finish
  \/ PrintSessionStats
  \/ IfNotSilent
  \/ OutImportant

DetSpec == Init /\ [][NextDet]_vars

----------------------------------------------------------------------------
(* Observations of a run, read from trace and the inputs. *)

Idx == DOMAIN trace

Is(i, op, ev) == trace[i].op = op /\ trace[i].ev = ev

Started(op) == \E i \in Idx : Is(i, op, "start")

Returned(op) == \E i \in Idx : Is(i, op, "return")

Count(op, ev) == Cardinality({i \in Idx : Is(i, op, ev)})

\* The events of the gatherers, in order.
GatherTrace == SelectSeq(trace, LAMBDA e : e.op \in Gatherers)

Calls(ops) == [i \in 1..(2 * Len(ops)) |->
                 [op |-> ops[(i + 1) \div 2],
                  ev |-> IF i % 2 = 1 THEN "start" ELSE "return"]]

\* The gatherer events are exactly the calls ops, each begun and returned.
GatheredExactly(ops) ==
  /\ Len(GatherTrace) = 2 * Len(ops)
  /\ \A i \in DOMAIN GatherTrace :
       /\ GatherTrace[i].op = Calls(ops)[i].op
       /\ GatherTrace[i].ev = Calls(ops)[i].ev

\* Run is past the three conditionals of lines 47-72.
Resolved == pc \in {"L74", "L75", "L77", "L79", "L80", "L81", "L83"}

HasLogins == viper.logins.elems # {}
HasOrgs == viper.orgs.elems # {}
HasRepos == viper.repos.elems # {}

ReposWithoutOwner == HasRepos /\ ~HasOrgs /\ ~HasLogins

\* The branch of the policy table a line of Run belongs to.
BranchOf(line) ==
  CASE line = "L49" -> "ByLogin"
    [] line = "L56" -> "ByOrg"
    [] line \in {"L64", "L65"} -> "ByOrgThenRepo"
    [] line \in {"L67", "L68"} -> "ByLoginThenRepo"
    [] line = "L70" -> "Invalid"
    [] OTHER -> "none"

BranchesTaken == {BranchOf(trace[i].line) : i \in Idx} \ {"none"}

----------------------------------------------------------------------------
\* C1 (as stated): once resolution is over, exactly one of the five branches
\* (ByLogin, ByOrg, ByOrgThenRepo, ByLoginThenRepo, Invalid) was taken, for
\* every combination of logins, organizations and repositories.
C1_ExactlyOneBranch ==
  Resolved => Cardinality(BranchesTaken) = 1

\* C1 (amended): never more than one branch is taken; once resolution is
\* over exactly one branch was taken when repositories is non-empty or
\* exactly one of logins and organizations is non-empty, and no branch was
\* taken when repositories is empty and logins and organizations are both
\* empty or both non-empty.
C1_AtMostOneBranch ==
  /\ Cardinality(BranchesTaken) <= 1
  /\ Resolved =>
       IF ~HasRepos /\ (HasLogins <=> HasOrgs)
       THEN BranchesTaken = {}
       ELSE Cardinality(BranchesTaken) = 1

C1_Witness ==
  /\ Resolved
  /\ HasLogins /\ HasOrgs /\ HasRepos
  /\ BranchesTaken = {"ByOrgThenRepo"}

\* C2: when repositories is non-empty and organizations and logins are
\* empty, AnalyzeRepositories, Finish and PrintSessionStats are never
\* invoked in the run.
C2_NoAnalysisWithoutOwner ==
  ReposWithoutOwner =>
    /\ ~Started("AnalyzeRepositories")
    /\ ~Started("Finish")
    /\ ~Started("PrintSessionStats")

\* C3: when repositories is non-empty and organizations and logins are
\* empty, no gatherer is invoked at any point of the run and the resolved
\* repository set stays empty.
C3_NoGatherWithoutOwner ==
  ReposWithoutOwner =>
    /\ \A g \in Gatherers : ~Started(g)
    /\ inCall \notin Gatherers
    /\ sess.Repositories = {}

C3_Witness ==
  /\ ReposWithoutOwner
  /\ Returned("Out.Error")
  /\ pc \in {"L81", "L83"}

\* C4: GatherGithubOrgRepositories starts only after a GatherOrgs call has
\* returned, GetGithubRepositoriesFromOwner starts only after a GatherUsers
\* call has returned, and a gatherer starts only when every gatherer started
\* before it has returned.
C4_PrerequisiteFirst ==
  \A i \in Idx :
    /\ Is(i, "GatherGithubOrgRepositories", "start") =>
         \E j \in 1..(i - 1) : Is(j, "GatherOrgs", "return")
    /\ Is(i, "GetGithubRepositoriesFromOwner", "start") =>
         \E j \in 1..(i - 1) : Is(j, "GatherUsers", "return")
    /\ (trace[i].op \in Gatherers /\ trace[i].ev = "start") =>
         \A j \in 1..(i - 1) :
           (trace[j].op \in Gatherers /\ trace[j].ev = "start") =>
             \E k \in (j + 1)..(i - 1) : Is(k, trace[j].op, "return")

C4_Witness ==
  /\ Started("GatherGithubOrgRepositories")
  /\ inCall = "GatherGithubOrgRepositories"

\* C5: when logins is non-empty and organizations and repositories are
\* empty, GatherUsers has been invoked (once) when analysis starts and no
\* other gatherer is invoked in the run.
C5_LoginsOnly ==
  (HasLogins /\ ~HasOrgs /\ ~HasRepos) =>
    /\ \A g \in Gatherers \ {"GatherUsers"} : ~Started(g)
    /\ Resolved => GatheredExactly(<<"GatherUsers">>)

C5_Witness ==
  /\ HasLogins /\ ~HasOrgs /\ ~HasRepos
  /\ Started("AnalyzeRepositories")
  /\ Returned("GatherUsers")

\* C6: when organizations is non-empty and logins and repositories are
\* empty, GatherOrgs and then GatherGithubOrgRepositories have both run
\* before analysis.
C6_OrgsOnlyTwoStages ==
  (HasOrgs /\ ~HasLogins /\ ~HasRepos /\ Resolved) =>
    GatheredExactly(<<"GatherOrgs", "GatherGithubOrgRepositories">>)

\* C7: when repositories and organizations are non-empty, the run invokes
\* GatherOrgs and then GatherGithubOrgRepositories, each exactly once, and
\* neither GatherUsers nor GetGithubRepositoriesFromOwner.
C7_OrgThenRepo ==
  (HasRepos /\ HasOrgs) =>
    /\ ~Started("GatherUsers")
    /\ ~Started("GetGithubRepositoriesFromOwner")
    /\ Resolved =>
         GatheredExactly(<<"GatherOrgs", "GatherGithubOrgRepositories">>)

C7_Witness ==
  /\ HasRepos /\ HasOrgs /\ HasLogins
  /\ Resolved
  /\ Returned("GatherGithubOrgRepositories")

\* C8: when repositories and logins are non-empty and organizations is
\* empty, the run invokes GatherUsers and then
\* GetGithubRepositoriesFromOwner, each exactly once, and neither GatherOrgs
\* nor GatherGithubOrgRepositories.
C8_LoginThenRepo ==
  (HasRepos /\ HasLogins /\ ~HasOrgs) =>
    /\ ~Started("GatherOrgs")
    /\ ~Started("GatherGithubOrgRepositories")
    /\ Resolved =>
         GatheredExactly(<<"GatherUsers", "GetGithubRepositoriesFromOwner">>)

C8_Witness ==
  /\ HasRepos /\ HasLogins /\ ~HasOrgs
  /\ Resolved
  /\ Returned("GetGithubRepositoriesFromOwner")

\* C9: when AnalyzeRepositories is invoked every gatherer invocation of the
\* run has returned, and no gatherer is invoked after it has started.
C9_ResolveBeforeAnalyze ==
  \A i \in Idx :
    Is(i, "AnalyzeRepositories", "start") =>
      /\ \A j \in Idx : trace[j].op \in Gatherers => j < i
      /\ \A g \in Gatherers : Count(g, "start") = Count(g, "return")

C9_Witness ==
  /\ Started("AnalyzeRepositories")
  /\ Returned("GatherGithubOrgRepositories")

\* C10: Finish is invoked at most once, only after NewSession and
\* AnalyzeRepositories have returned; PrintSessionStats is invoked only
\* after Finish has returned; once Finish has returned it was invoked
\* exactly once, finishedAt was set exactly once and is not before
\* startedAt.
C10_FinishOnce ==
  /\ Count("Finish", "start") <= 1
  /\ \A i \in Idx :
       /\ Is(i, "Finish", "start") =>
            /\ \E j \in 1..(i - 1) : Is(j, "NewSession", "return")
            /\ \E j \in 1..(i - 1) : Is(j, "AnalyzeRepositories", "return")
       /\ Is(i, "PrintSessionStats", "start") =>
            \E j \in 1..(i - 1) : Is(j, "Finish", "return")
  /\ pc \in {"L77", "L79", "L80", "L81", "L83"} =>
       /\ Count("Finish", "return") = 1
       /\ sess.finishes = 1
       /\ sess.StartedAt > 0
       /\ sess.FinishedAt >= sess.StartedAt
  /\ pc \notin {"L77", "L79", "L80", "L81", "L83"} =>
       sess.finishes = 0 /\ sess.FinishedAt = 0

C10_Witness ==
  /\ Returned("PrintSessionStats")
  /\ sess.finishes = 1
  /\ sess.FinishedAt > sess.StartedAt

----------------------------------------------------------------------------
\* Run has ended: it is blocked in select {} (line 81) or has returned.
Final == {"L81", "L83"}

\* The report has been emitted.
Reported ==
  /\ Count("AnalyzeRepositories", "return") = 1
  /\ Count("Finish", "return") = 1
  /\ Count("PrintSessionStats", "return") = 1

\* The gatherers Run calls for a combination of targets (lines 47-72).
ExpectedGatherers ==
  CASE HasRepos /\ HasOrgs ->
         <<"GatherOrgs", "GatherGithubOrgRepositories">>
    [] HasRepos /\ ~HasOrgs /\ HasLogins ->
         <<"GatherUsers", "GetGithubRepositoriesFromOwner">>
    [] ~HasRepos /\ ~HasOrgs /\ HasLogins -> <<"GatherUsers">>
    [] ~HasRepos /\ HasOrgs /\ ~HasLogins -> <<"GatherOrgs">>
    [] OTHER -> <<>>

\* C11: when the session is not silent, Run never returns, and once it
\* blocks after PrintSessionStats no step is taken any more.
C11_BlocksWhenNotSilent ==
  [][/\ pc # "L81"
     /\ ~viper.silent => pc' # "L83"]_vars

C11_Witness ==
  /\ ~viper.silent
  /\ pc = "L81"
  /\ Returned("PrintSessionStats")

\* C12 (as stated): when --silent is set the process still blocks after the
\* report: Run does not return.
C12_SilentStillBlocks ==
  viper.silent => pc # "L83"

\* C12 (amended): when --silent is set the interactive message of line 80
\* and the block are both skipped: Run returns once the report is emitted.
C12_SilentReturns ==
  viper.silent =>
    /\ \A i \in Idx : ~(trace[i].op = "Out.Important" /\ trace[i].line = "L80")
    /\ pc \notin {"L80", "L81"}
    /\ pc = "L83" => Reported

C12_Witness ==
  /\ viper.silent
  /\ pc = "L83"
  /\ Returned("PrintSessionStats")

\* C13: the session token being empty or not changes nothing: in both cases
\* a run that is not over can take a step, and a run that is over has
\* called the gatherers of its target combination and AnalyzeRepositories,
\* Finish and PrintSessionStats once each.
C13_EmptyTokenNoAbort ==
  /\ (sess.tokenAssigned /\ sess.GithubAccessToken = "") =>
       /\ pc \notin Final => ENABLED Next
       /\ pc \in Final => GatheredExactly(ExpectedGatherers) /\ Reported
  /\ (sess.tokenAssigned /\ sess.GithubAccessToken # "") =>
       /\ pc \in Final => GatheredExactly(ExpectedGatherers) /\ Reported

C13_Witness ==
  /\ sess.tokenAssigned /\ sess.GithubAccessToken = ""
  /\ HasLogins /\ ~HasOrgs /\ ~HasRepos
  /\ pc \in Final
  /\ Returned("GatherUsers")

\* C14: after a failure in a gatherer the run goes on: it can take a step
\* until it is over, and when it is over the gatherers of the target
\* combination, AnalyzeRepositories, Finish and PrintSessionStats have all
\* been called.
C14_GatherFailureNoAbort ==
  sess.failures > 0 =>
    /\ pc \notin Final => ENABLED Next
    /\ pc \in Final =>
         /\ \A i \in DOMAIN ExpectedGatherers :
              Returned(ExpectedGatherers[i])
         /\ Returned("AnalyzeRepositories")
         /\ Returned("Finish")
         /\ Returned("PrintSessionStats")

C14_Witness ==
  /\ HasRepos /\ HasOrgs
  /\ sess.Organizations = {}
  /\ sess.failures > 0
  /\ Returned("GatherGithubOrgRepositories")
  /\ pc \in Final

\* The repositories resolved for a combination of targets when every target
\* exists.
ExpectedRepositories ==
  IF HasRepos /\ HasOrgs THEN viper.orgs.elems \X viper.repos.elems
  ELSE IF HasRepos /\ HasLogins THEN viper.logins.elems \X viper.repos.elems
  ELSE {}

\* C15: with deterministic gatherers the sequence of gatherers called and
\* the resolved repositories are a function of logins, organizations and
\* repositories alone, so two runs on the same inputs agree.
C15_Deterministic ==
  Resolved =>
    /\ [i \in DOMAIN GatherTrace |-> <<GatherTrace[i].op, GatherTrace[i].ev>>]
         = [i \in DOMAIN Calls(ExpectedGatherers) |->
              <<Calls(ExpectedGatherers)[i].op, Calls(ExpectedGatherers)[i].ev>>]
    /\ sess.Repositories = ExpectedRepositories
    /\ sess.failures = 0

C15_Witness ==
  /\ Resolved
  /\ HasRepos /\ HasLogins /\ ~HasOrgs
  /\ sess.Repositories = viper.logins.elems \X viper.repos.elems

\* C16: when InitGitClient or a gatherer is invoked, ValidateUserInput has
\* returned, CheckGithubAPIToken was started after that and has returned,
\* and the session token has been assigned.
C16_ValidatedBeforeResolving ==
  /\ \A i \in Idx :
       (trace[i].ev = "start" /\ trace[i].op \in Gatherers \cup {"InitGitClient"}) =>
         \E j \in 1..(i - 1) : \E k \in (j + 1)..(i - 1) :
           \E m \in (k + 1)..(i - 1) :
             /\ Is(j, "ValidateUserInput", "return")
             /\ Is(k, "CheckGithubAPIToken", "start")
             /\ Is(m, "CheckGithubAPIToken", "return")
  /\ (Started("InitGitClient") \/ \E g \in Gatherers : Started(g)) =>
       sess.tokenAssigned

C16_Witness ==
  /\ inCall = "GatherUsers"
  /\ Returned("InitGitClient")
  /\ sess.tokenAssigned

\* C17: once the credential is resolved, a non-empty value of the flag
\* --github-enterprise-api-token is the session token.
C17_TokenFromEnterpriseFlag ==
  (sess.tokenAssigned /\ viper.githubEnterpriseApiToken # "") =>
    /\ sess.GithubAccessToken # ""
    /\ sess.GithubAccessToken = viper.githubEnterpriseApiToken

\* The lifecycle stage of a position of Run: 0 Created, 1 Validated,
\* 2 Resolving, 3 Analyzing, 4 Finished.
Stage ==
  CASE pc \in {"L28", "L31", "L35"} -> 0
    [] pc \in {"L38", "L39", "L40", "L43"} -> 1
    [] pc \in {"L47", "L49", "L54", "L56", "L62", "L64", "L65", "L67",
               "L68", "L70"} -> 2
    [] pc = "L74" -> 3
    [] OTHER -> 4

\* C18: every run reaches the end with AnalyzeRepositories, Finish and
\* PrintSessionStats called, and its stage goes Created, Validated,
\* Resolving, Analyzing, Finished: a step keeps the stage or moves to the
\* next one.
C18_ReachesFinished ==
  /\ <>(pc \in Final /\ Reported)
  /\ [][Stage' = Stage \/ Stage' = Stage + 1]_vars

C18_Witness ==
  /\ ReposWithoutOwner
  /\ pc \in Final
  /\ Reported

\* C19: when repositories is empty and logins and organizations are both
\* empty or both non-empty, no gatherer is invoked and no error is
\* reported, and the run still calls AnalyzeRepositories, Finish and
\* PrintSessionStats.
C19_NothingToResolve ==
  (~HasRepos /\ (HasLogins <=> HasOrgs)) =>
    /\ \A g \in Gatherers : ~Started(g)
    /\ ~Started("Out.Error")
    /\ sess.errors = 0
    /\ sess.Repositories = {}
    /\ pc \notin Final => ENABLED Next
    /\ pc \in Final => Reported

C19_Witness ==
  /\ ~HasRepos /\ HasLogins /\ HasOrgs
  /\ pc \in Final
  /\ Returned("AnalyzeRepositories")
  /\ sess.errors = 0

\* C20: each of the four gatherers is invoked at most once in a run.
C20_GatherAtMostOnce ==
  \A g \in Gatherers : Count(g, "start") <= 1

C20_Witness ==
  /\ HasLogins /\ HasRepos /\ ~HasOrgs
  /\ pc \in Final
  /\ Count("GatherUsers", "start") = 1
====
